---- MODULE Spec2Model ----
(***************************************************************************)
(* Sehat.ai backend (src/backend/main.py): the disease lookup, the symptom *)
(* checker and the vaccination endpoints, as a state machine over the      *)
(* catalogs loaded at start-up, the last call and its response.            *)
(*                                                                         *)
(* Python strings are sequences of one-character strings, so that lower(), *)
(* strip(), split(), replace(), "in", int() and strptime() are computed as *)
(* the interpreter computes them. The characters are the printable ASCII   *)
(* characters, the backquote excepted, and the ASCII whitespace.           *)
(***************************************************************************)
EXTENDS Integers, Sequences, FiniteSets, TLC

VARIABLES disease_data, vaccination_data, translations, today, call, response

vars == <<disease_data, vaccination_data, translations, today, call, response>>

---------------------------------------------------------------------------
(* Python string primitives used by the handlers.                          *)

UpperCase == <<"A","B","C","D","E","F","G","H","I","J","K","L","M",
               "N","O","P","Q","R","S","T","U","V","W","X","Y","Z">>

LowerCase == <<"a","b","c","d","e","f","g","h","i","j","k","l","m",
               "n","o","p","q","r","s","t","u","v","w","x","y","z">>

Digits == <<"0","1","2","3","4","5","6","7","8","9">>

\* the ASCII characters str.strip() removes: tab, line feed, vertical tab,
\* form feed, carriage return, the separators 0x1c-0x1f, space
Whitespace == {"\t", "\n", "", "\f", "\r", "", "", "", "", " "}

IsDigit(c) == \E i \in 1..10 : Digits[i] = c

DigitVal(c) == (CHOOSE i \in 1..10 : Digits[i] = c) - 1

LowerChar(c) ==
    IF \E i \in 1..26 : UpperCase[i] = c
    THEN LowerCase[CHOOSE i \in 1..26 : UpperCase[i] = c]
    ELSE c

\* str.lower()
lower(s) == [i \in 1..Len(s) |-> LowerChar(s[i])]

\* the characters int() skips around the literal: the separators 0x1c-0x1f
\* are not among them
IntSpace == {"\t", "\n", "", "\f", "\r", " "}

\* s.strip(chars): leading and trailing characters of chars removed
strip_chars(s, chars) ==
    LET keep == {i \in 1..Len(s) : s[i] \notin chars}
    IN  IF keep = {} THEN <<>>
        ELSE LET lo == CHOOSE i \in keep : \A j \in keep : i <= j
                 hi == CHOOSE i \in keep : \A j \in keep : i >= j
             IN  SubSeq(s, lo, hi)

\* str.strip(): leading and trailing whitespace removed
strip(s) == strip_chars(s, Whitespace)

\* the Python test "sub in s" on strings
Contains(sub, s) ==
    \E i \in 0..(Len(s) - Len(sub)) : SubSeq(s, i + 1, i + Len(sub)) = sub

\* position of the first occurrence of the character sep in s, 0 if none
FirstIndex(s, sep) ==
    IF \E i \in 1..Len(s) : s[i] = sep
    THEN CHOOSE i \in 1..Len(s) : s[i] = sep /\ \A j \in 1..(i - 1) : s[j] # sep
    ELSE 0

\* str.split(sep) for a one-character separator: "" splits to [""]
RECURSIVE split(_, _)
split(s, sep) ==
    LET i == FirstIndex(s, sep)
    IN  IF i = 0 THEN <<s>>
        ELSE <<SubSeq(s, 1, i - 1)>> \o split(SubSeq(s, i + 1, Len(s)), sep)

\* str.replace(old, ""): every non-overlapping occurrence, left to right
RECURSIVE remove(_, _)
remove(s, old) ==
    IF Len(s) < Len(old) \/ Len(old) = 0 THEN s
    ELSE IF SubSeq(s, 1, Len(old)) = old
         THEN remove(SubSeq(s, Len(old) + 1, Len(s)), old)
         ELSE <<s[1]>> \o remove(SubSeq(s, 2, Len(s)), old)

\* value of a sequence of digit characters, underscores skipped
RECURSIVE DigitsValue(_)
DigitsValue(s) ==
    IF s = <<>> THEN 0
    ELSE IF s[Len(s)] = "_" THEN DigitsValue(SubSeq(s, 1, Len(s) - 1))
         ELSE DigitsValue(SubSeq(s, 1, Len(s) - 1)) * 10 + DigitVal(s[Len(s)])

\* the literals int() accepts: digits, single underscores between digits
IsIntBody(s) ==
    /\ s # <<>>
    /\ \A i \in 1..Len(s) : IsDigit(s[i]) \/ s[i] = "_"
    /\ IsDigit(s[1]) /\ IsDigit(s[Len(s)])
    /\ \A i \in 1..(Len(s) - 1) : ~(s[i] = "_" /\ s[i + 1] = "_")

\* int(s): [ok |-> FALSE] stands for the ValueError
int(s) ==
    LET t == strip_chars(s, IntSpace)
        signed == t # <<>> /\ t[1] \in {"+", "-"}
        body == IF signed THEN SubSeq(t, 2, Len(t)) ELSE t
    IN  IF IsIntBody(body)
        THEN [ok |-> TRUE,
              val |-> IF signed /\ t[1] = "-" THEN 0 - DigitsValue(body)
                      ELSE DigitsValue(body)]
        ELSE [ok |-> FALSE, val |-> 0]

---------------------------------------------------------------------------
(* datetime.strptime(dob, "%Y-%m-%d").date() and date subtraction.         *)

IsLeap(y) == y % 4 = 0 /\ (y % 100 # 0 \/ y % 400 = 0)

DaysInMonth(y, m) ==
    IF m = 2 THEN (IF IsLeap(y) THEN 29 ELSE 28)
    ELSE IF m \in {4, 6, 9, 11} THEN 30 ELSE 31

DaysBeforeYear(y) ==
    (y - 1) * 365 + ((y - 1) \div 4) - ((y - 1) \div 100) + ((y - 1) \div 400)

RECURSIVE DaysBeforeMonth(_, _)
DaysBeforeMonth(y, m) ==
    IF m = 1 THEN 0 ELSE DaysBeforeMonth(y, m - 1) + DaysInMonth(y, m - 1)

\* date.toordinal()
toordinal(d) == DaysBeforeYear(d.year) + DaysBeforeMonth(d.year, d.month) + d.day

\* the directive %Y: exactly four digits
MatchesY(p) == Len(p) = 4 /\ \A i \in 1..4 : IsDigit(p[i])

\* the directive %m: 1[0-2] | 0[1-9] | [1-9]
MatchesM(p) ==
    \/ Len(p) = 2 /\ p[1] = "1" /\ p[2] \in {"0", "1", "2"}
    \/ Len(p) = 2 /\ p[1] = "0" /\ IsDigit(p[2]) /\ p[2] # "0"
    \/ Len(p) = 1 /\ IsDigit(p[1]) /\ p[1] # "0"

\* the directive %d: 3[01] | [12]\d | 0[1-9] | [1-9] | " "[1-9]
MatchesD(p) ==
    \/ Len(p) = 2 /\ p[1] = "3" /\ p[2] \in {"0", "1"}
    \/ Len(p) = 2 /\ p[1] \in {"1", "2"} /\ IsDigit(p[2])
    \/ Len(p) = 2 /\ p[1] \in {"0", " "} /\ IsDigit(p[2]) /\ p[2] # "0"
    \/ Len(p) = 1 /\ IsDigit(p[1]) /\ p[1] # "0"

\* strptime(s, "%Y-%m-%d").date(): [ok |-> FALSE] stands for the ValueError
strptime(s) ==
    LET parts == split(s, "-")
        bad == [ok |-> FALSE, year |-> 0, month |-> 0, day |-> 0]
    IN  IF Len(parts) # 3 THEN bad
        ELSE IF ~(MatchesY(parts[1]) /\ MatchesM(parts[2]) /\ MatchesD(parts[3]))
        THEN bad
        ELSE LET y == DigitsValue(parts[1])
                 m == DigitsValue(parts[2])
                 d == DigitsValue(strip(parts[3]))
             IN  IF y >= 1 /\ d <= DaysInMonth(y, m)
                 THEN [ok |-> TRUE, year |-> y, month |-> m, day |-> d]
                 ELSE bad

\* str(date): the ISO form YYYY-MM-DD, zero padded
isoformat(d) ==
    <<Digits[((d.year \div 1000) % 10) + 1], Digits[((d.year \div 100) % 10) + 1],
      Digits[((d.year \div 10) % 10) + 1], Digits[(d.year % 10) + 1], "-",
      Digits[(d.month \div 10) + 1], Digits[(d.month % 10) + 1], "-",
      Digits[(d.day \div 10) + 1], Digits[(d.day % 10) + 1]>>

---------------------------------------------------------------------------
(* Shared helpers of the handlers.                                         *)

\* Python's None, as a value comparable with the catalog's records
None == [none |-> TRUE]

\* the default of every handler's lang parameter
En == <<"e","n">>

\* lines 52-56: the text of the key in the language asked for, else in
\* English, else the key itself
t(key, lang) ==
    IF key \in DOMAIN translations
    THEN IF lang \in DOMAIN translations[key] THEN translations[key][lang]
         ELSE IF En \in DOMAIN translations[key] THEN translations[key][En]
         ELSE key
    ELSE key

\* seq[:n]
Take(seq, n) == SubSeq(seq, 1, IF Len(seq) < n THEN Len(seq) ELSE n)

\* the elements of a list as a set: set(list)
ToSet(seq) == {seq[i] : i \in 1..Len(seq)}

---------------------------------------------------------------------------
(* GET /disease/{name}                                                     *)

\* line 83: str(record.get("disease", "")).lower().strip()
disease_name(record) == strip(lower(record.disease))

\* variant of NameMatches: the name is not lower-cased
NameMatchesNoLower(query, record) == Contains(query, strip(record.disease))

\* line 84: query in disease_name
NameMatches(query, record) == Contains(query, disease_name(record))

\* line 93: query[0] in str(rec.get("disease", "")).lower()
Suggested(query, rec) == Contains(<<query[1]>>, lower(rec.disease))

SuggestionCap == 5

get_disease_info(name, lang) ==
    IF disease_data = <<>> THEN [error |-> t("unknown_query", lang)]
    ELSE LET query == strip(lower(name))
             matches == SelectSeq(disease_data, LAMBDA record : NameMatches(query, record))
         IN  IF matches # <<>>
             THEN [message |-> t("disease_info", lang), results |-> matches]
             ELSE IF query = <<>>
                  THEN [exception |-> "IndexError"]
                  ELSE LET hits == SelectSeq(disease_data, LAMBDA rec : Suggested(query, rec))
                           suggestions == Take([i \in 1..Len(hits) |-> hits[i].disease],
                                               SuggestionCap)
                       IN  [error |-> "No data found", did_you_mean |-> suggestions]

---------------------------------------------------------------------------
(* GET /symptom-check                                                      *)

\* line 105 and line 109: [s.strip().lower() for s in ...]
normalise(list) == [i \in 1..Len(list) |-> lower(strip(list[i]))]

\* variant of score: a symptom repeated in the query counts each time
scoreWithRepeats(user_symptoms, disease_symptoms) ==
    Cardinality({i \in 1..Len(user_symptoms) : user_symptoms[i] \in ToSet(disease_symptoms)})

\* line 110: len(set(user_symptoms) & set(disease_symptoms))
score(user_symptoms, disease_symptoms) ==
    Cardinality(ToSet(user_symptoms) \cap ToSet(disease_symptoms))

\* lines 108-116: the records with a positive score, in catalog order
RECURSIVE collect(_, _)
collect(records, user_symptoms) ==
    IF records = <<>> THEN <<>>
    ELSE LET record == Head(records)
             sc == score(user_symptoms, normalise(record.common_symptoms))
         IN  (IF sc > 0
              THEN <<[disease |-> record.disease, match_score |-> sc,
                      symptoms |-> record.common_symptoms]>>
              ELSE <<>>) \o collect(Tail(records), user_symptoms)

\* variant of Insert: x goes ahead of the elements of equal key
InsertUnstable(acc, x) ==
    LET k == Cardinality({i \in 1..Len(acc) : acc[i].match_score > x.match_score})
    IN  SubSeq(acc, 1, k) \o <<x>> \o SubSeq(acc, k + 1, Len(acc))

\* one step of the stable descending sort: x goes behind every element whose
\* key is at least its own
Insert(acc, x) ==
    LET k == Cardinality({i \in 1..Len(acc) : acc[i].match_score >= x.match_score})
    IN  SubSeq(acc, 1, k) \o <<x>> \o SubSeq(acc, k + 1, Len(acc))

\* line 118: sorted(matches, key=lambda x: x["match_score"], reverse=True)
RECURSIVE sorted(_)
sorted(matches) ==
    IF matches = <<>> THEN <<>>
    ELSE Insert(sorted(SubSeq(matches, 1, Len(matches) - 1)), matches[Len(matches)])

ResultCap == 5

symptom_check(symptoms, lang) ==
    IF disease_data = <<>> THEN [error |-> t("unknown_query", lang)]
    ELSE LET user_symptoms == normalise(split(symptoms, ","))
             matches == sorted(collect(disease_data, user_symptoms))
             top == Take(matches, ResultCap)
         IN  [input_symptoms |-> user_symptoms,
              possible_diseases |-> IF top # <<>> THEN [list |-> top]
                                    ELSE [text |-> t("unknown_query", lang)]]

---------------------------------------------------------------------------
(* Vaccination endpoints.                                                  *)

\* vaccination_data.get("vaccinations", {}).get(category, []) for the two
\* categories in the order of the loops (lines 142 and 170)
all_entries ==
    IF "vaccinations" \notin DOMAIN vaccination_data THEN <<>>
    ELSE vaccination_data.vaccinations.NIS_vaccines
         \o vaccination_data.vaccinations.optional_private_vaccines

\* variant of AgeMatches: only the query inside the label
AgeMatchesOneWay(age_query, vaccine_age) == Contains(age_query, vaccine_age)

\* line 145: age_query in vaccine_age or vaccine_age in age_query
AgeMatches(age_query, vaccine_age) ==
    Contains(age_query, vaccine_age) \/ Contains(vaccine_age, age_query)

\* GET /vaccination/all (lines 128-132)
get_all_vaccines(lang) ==
    IF DOMAIN vaccination_data = {} THEN [error |-> t("unknown_query", lang)]
    ELSE IF "vaccinations" \in DOMAIN vaccination_data
         THEN vaccination_data.vaccinations
         ELSE <<>>

\* GET /vaccination/{age} (lines 134-151)
get_vaccines_by_age(age, lang) ==
    IF DOMAIN vaccination_data = {} THEN [error |-> t("unknown_query", lang)]
    ELSE LET age_query == strip(lower(age))
             results == SelectSeq(all_entries,
                                  LAMBDA v : AgeMatches(age_query, lower(v.age)))
         IN  IF results # <<>> THEN [age |-> age, vaccines |-> results]
             ELSE [error |-> "No vaccines found for age"]

\* lines 174-189: the substring tested and the months accepted, in the order
\* of the if/elif chain
DueRules ==
    << [sub |-> <<"b","i","r","t","h">>, lo |-> 0, hi |-> 0],
       [sub |-> <<"6"," ","w","e","e","k","s">>, lo |-> 1, hi |-> 2],
       [sub |-> <<"1","0"," ","w","e","e","k","s">>, lo |-> 2, hi |-> 3],
       [sub |-> <<"1","4"," ","w","e","e","k","s">>, lo |-> 3, hi |-> 4],
       [sub |-> <<"9","-","1","2"," ","m","o","n","t","h","s">>, lo |-> 9, hi |-> 12],
       [sub |-> <<"1","6","-","2","4"," ","m","o","n","t","h","s">>, lo |-> 16, hi |-> 24],
       [sub |-> <<"5","-","6"," ","y","e","a","r","s">>, lo |-> 60, hi |-> 72],
       [sub |-> <<"1","0"," ","y","e","a","r","s">>, lo |-> 120, hi |-> 132] >>

\* lines 174-189: some branch of the chain appends the entry
IsDue(age_str, age_months) ==
    \E k \in 1..Len(DueRules) :
        /\ Contains(DueRules[k].sub, age_str)
        /\ DueRules[k].lo <= age_months /\ age_months <= DueRules[k].hi
        /\ \A j \in 1..(k - 1) :
              ~(/\ Contains(DueRules[j].sub, age_str)
                /\ DueRules[j].lo <= age_months /\ age_months <= DueRules[j].hi)

Months == <<"m","o","n","t","h","s">>

\* line 193: int(age_str.split("-")[0].replace("months", "").strip())
min_age(age_str) == int(strip(remove(split(age_str, "-")[1], Months)))

\* lines 191-197 for one entry: "months" in the label, the lower bound parses
\* (a ValueError is swallowed) and exceeds the age
IsUpcoming(age_str, age_months) ==
    /\ Contains(Months, age_str)
    /\ min_age(age_str).ok
    /\ min_age(age_str).val > age_months

\* variant of Step: a later matching entry replaces the upcoming one
StepKeepLast(acc, v, age_months) ==
    LET age_str == lower(v.age)
    IN  [due_vaccines |->
             IF IsDue(age_str, age_months) THEN Append(acc.due_vaccines, v)
             ELSE acc.due_vaccines,
         upcoming_vaccine |->
             IF IsUpcoming(age_str, age_months) THEN v ELSE acc.upcoming_vaccine]

\* lines 171-197: the body of the loop for one entry v
Step(acc, v, age_months) ==
    LET age_str == lower(v.age)
    IN  [due_vaccines |->
             IF IsDue(age_str, age_months) THEN Append(acc.due_vaccines, v)
             ELSE acc.due_vaccines,
         upcoming_vaccine |->
             IF acc.upcoming_vaccine = None /\ IsUpcoming(age_str, age_months)
             THEN v ELSE acc.upcoming_vaccine]

\* lines 167-197: the two loops over the catalog
RECURSIVE Loop(_, _, _)
Loop(acc, entries, age_months) ==
    IF entries = <<>> THEN acc
    ELSE Loop(Step(acc, Head(entries), age_months), Tail(entries), age_months)

DaysPerMonth == 30

\* lines 163-165: (today - dob_date).days // 30
age_months_of(dob_date) == (toordinal(today) - toordinal(dob_date)) \div DaysPerMonth

\* GET /vaccination/due (lines 153-204)
get_due_vaccines(dob, lang) ==
    IF DOMAIN vaccination_data = {} THEN [error |-> t("unknown_query", lang)]
    ELSE LET dob_date == strptime(dob)
         IN  IF ~dob_date.ok THEN [error |-> "Invalid date format. Use YYYY-MM-DD"]
             ELSE LET age_months == age_months_of(dob_date)
                      out == Loop([due_vaccines |-> <<>>, upcoming_vaccine |-> None],
                                  all_entries, age_months)
                  IN  [dob |-> isoformat(dob_date),
                       age_months |-> age_months,
                       due_vaccines |-> out.due_vaccines,
                       upcoming_vaccine |-> out.upcoming_vaccine]

---------------------------------------------------------------------------
(* Routing: the routes FastAPI() registers for the API documentation, then *)
(* the @app.get decorators in registration order; a request goes to the    *)
(* first route whose path matches.                                         *)

Routes ==
    << [path |-> <<"/","o","p","e","n","a","p","i",".","j","s","o","n">>, handler |-> "openapi"],
       [path |-> <<"/","d","o","c","s">>, handler |-> "swagger_ui_html"],
       [path |-> <<"/","d","o","c","s","/","o","a","u","t","h","2","-","r","e","d","i","r","e","c","t">>,
        handler |-> "swagger_ui_redirect"],
       [path |-> <<"/","r","e","d","o","c">>, handler |-> "redoc_html"],
       [path |-> <<"/">>, handler |-> "home"],
       [path |-> <<"/","f","a","v","i","c","o","n",".","i","c","o">>,
        handler |-> "favicon"],
       [path |-> <<"/","d","i","s","e","a","s","e","/","{","n","a","m","e","}">>,
        handler |-> "get_disease_info"],
       [path |-> <<"/","s","y","m","p","t","o","m","-","c","h","e","c","k">>,
        handler |-> "symptom_check"],
       [path |-> <<"/","v","a","c","c","i","n","a","t","i","o","n","/","a","l","l">>,
        handler |-> "get_all_vaccines"],
       [path |-> <<"/","v","a","c","c","i","n","a","t","i","o","n","/","{","a","g","e","}">>,
        handler |-> "get_vaccines_by_age"],
       [path |-> <<"/","v","a","c","c","i","n","a","t","i","o","n","/","d","u","e">>,
        handler |-> "get_due_vaccines"] >>

IsParam(segment) ==
    Len(segment) >= 2 /\ segment[1] = "{" /\ segment[Len(segment)] = "}"

\* a route path matches a request path: the same number of segments, literal
\* segments equal, a {parameter} segment taking any non-empty segment; the
\* route's pattern ends in "$", which also matches before a final line feed
PathMatches(route_path, path) ==
    LET rs == split(route_path, "/")
        ps == split(path, "/")
    IN  /\ Len(rs) = Len(ps)
        /\ \A i \in 1..Len(rs) :
              IF IsParam(rs[i]) THEN ps[i] # <<>>
              ELSE \/ rs[i] = ps[i]
                   \/ i = Len(rs) /\ ps[i] = rs[i] \o <<"\n">>

\* the value of the route's path parameter (the routes have at most one)
PathParam(route_path, path) ==
    LET rs == split(route_path, "/")
        ps == split(path, "/")
    IN  ps[CHOOSE i \in 1..Len(rs) : IsParam(rs[i])]

\* index of the first matching route, 0 if none
Dispatch(path) ==
    LET matching == {i \in 1..Len(Routes) : PathMatches(Routes[i].path, path)}
    IN  IF matching = {} THEN 0
        ELSE CHOOSE i \in matching : \A j \in matching : i <= j

\* path.rstrip("/")
RECURSIVE rstrip_slash(_)
rstrip_slash(path) ==
    IF path # <<>> /\ path[Len(path)] = "/"
    THEN rstrip_slash(SubSeq(path, 1, Len(path) - 1))
    ELSE path

\* the router's redirect_slashes: the path with its trailing slashes removed,
\* or with one added when it has none
redirect_path(path) ==
    IF path # <<>> /\ path[Len(path)] = "/" THEN rstrip_slash(path)
    ELSE path \o <<"/">>

\* no route matches the path, it is not "/", and a route matches the other
\* spelling: the router answers with a redirect to it
Redirects(path) ==
    /\ Dispatch(path) = 0
    /\ path # <<"/">>
    /\ Dispatch(redirect_path(path)) # 0

\* the characters the redirect's Location header percent-encodes, with
\* their codes
Escapes ==
    ("\t" :> <<"%","0","9">>) @@ ("\n" :> <<"%","0","A">>)
    @@ ("" :> <<"%","0","B">>) @@ ("\f" :> <<"%","0","C">>)
    @@ ("\r" :> <<"%","0","D">>) @@ ("" :> <<"%","1","C">>)
    @@ ("" :> <<"%","1","D">>) @@ ("" :> <<"%","1","E">>)
    @@ ("" :> <<"%","1","F">>) @@ (" " :> <<"%","2","0">>)
    @@ ("\"" :> <<"%","2","2">>) @@ ("<" :> <<"%","3","C">>)
    @@ (">" :> <<"%","3","E">>) @@ ("\\" :> <<"%","5","C">>)
    @@ ("^" :> <<"%","5","E">>)
    @@ ("{" :> <<"%","7","B">>) @@ ("|" :> <<"%","7","C">>)
    @@ ("}" :> <<"%","7","D">>)

\* quote(url, safe=":/%#?=@[]!$&'()*+,;")
RECURSIVE quote(_)
quote(url) ==
    IF url = <<>> THEN <<>>
    ELSE (IF url[1] \in DOMAIN Escapes THEN Escapes[url[1]] ELSE <<url[1]>>)
         \o quote(Tail(url))

\* the query string of a request with dob, symptoms and at most one lang
QueryString(dob, symptoms, langs) ==
    <<"d","o","b","=">> \o dob
    \o <<"&","s","y","m","p","t","o","m","s","=">> \o symptoms
    \o (IF langs = <<>> THEN <<>> ELSE <<"&","l","a","n","g","=">> \o langs[1])

---------------------------------------------------------------------------
(* The inputs: catalogs as the JSON files may hold them, and requests.     *)

MaxDiseases == 6
MaxCatalog == 6
MaxNIS == 2
MaxOptional == 1
MaxJoint == 3

\* the sequences over S of length lo..hi
SeqsOf(S, lo, hi) == UNION {[1..n -> S] : n \in lo..hi}

NoCall == [handler |-> "none"]

\* the eight labels of the schedule that the due-date chain names
RecognizedLabels ==
    { <<"A","t"," ","b","i","r","t","h">>,
      <<"6"," ","w","e","e","k","s">>,
      <<"1","0"," ","w","e","e","k","s">>,
      <<"1","4"," ","w","e","e","k","s">>,
      <<"9","-","1","2"," ","m","o","n","t","h","s">>,
      <<"1","6","-","2","4"," ","m","o","n","t","h","s">>,
      <<"5","-","6"," ","y","e","a","r","s">>,
      <<"1","0"," ","y","e","a","r","s">> }

\* further labels of a schedule file
OtherLabels ==
    { <<"1","6"," ","w","e","e","k","s">>,
      <<"B","i","r","t","h"," ","d","o","s","e">>,
      <<"6"," ","m","o","n","t","h","s","-","b","i","r","t","h">>,
      <<"6","\r","m","o","n","t","h","s">> }

\* the labels of the longer schedules: two parsable lower bounds and one that
\* does not parse
CoreLabels ==
    { <<"9","-","1","2"," ","m","o","n","t","h","s">>,
      <<"1","8"," ","M","o","n","t","h","s">>,
      <<"9"," ","t","o"," ","1","2"," ","m","o","n","t","h","s">> }

Entry(label, i) == [vaccine |-> i, age |-> label]

Schedule(nis, opt) ==
    [vaccinations |->
        [NIS_vaccines |-> [i \in 1..Len(nis) |-> Entry(nis[i], i)],
         optional_private_vaccines |->
             [i \in 1..Len(opt) |-> Entry(opt[i], Len(nis) + i)]]]

\* vaccination_schedule.json: absent (the fallback {}), or one entry with any
\* label
ShortSchedules ==
    {<<>>} \cup {Schedule(<<l>>, <<>>) : l \in RecognizedLabels \cup OtherLabels}

\* vaccination_schedule.json: up to MaxNIS + MaxOptional entries over the core
\* labels
LongSchedules ==
    {Schedule(nis, opt) : nis \in SeqsOf(CoreLabels, 0, MaxNIS),
                          opt \in SeqsOf(CoreLabels, 0, MaxOptional)}

Today == [year |-> 2024, month |-> 7, day |-> 1]

\* datetime.today() on the days the requests arrive
Todays == {Today, [year |-> 2025, month |-> 3, day |-> 1]}

\* dates of birth around every boundary of the windows, and after today
DobDates ==
    { <<2024, 7, 2>>, <<2024, 7, 31>>, <<2024, 8, 1>>, <<2024, 7, 1>>,
      <<2024, 6, 2>>, <<2024, 6, 1>>, <<2024, 5, 2>>, <<2024, 4, 3>>,
      <<2024, 4, 2>>, <<2024, 3, 3>>, <<2024, 2, 29>>, <<2024, 2, 2>>,
      <<2024, 1, 1>>, <<2023, 10, 6>>, <<2023, 10, 5>>, <<2023, 6, 8>>,
      <<2023, 6, 7>>, <<2023, 3, 10>>, <<2023, 3, 9>>, <<2022, 6, 13>>,
      <<2022, 6, 12>>, <<2019, 7, 29>>, <<2019, 7, 28>>, <<2018, 7, 4>>,
      <<2018, 7, 3>>, <<2014, 8, 24>>, <<2014, 8, 23>>, <<2013, 7, 30>>,
      <<2013, 7, 29>> }

\* the dob parameter: well-formed dates and strings strptime may refuse
DobStrings ==
    {isoformat([year |-> d[1], month |-> d[2], day |-> d[3]]) : d \in DobDates}
    \cup { <<"2","0","2","3","-","0","2","-","2","9">>,
      <<"2","0","2","4","-","0","6","-","3","1">>,
      <<"x">>,
      <<"2","0","2","4","/","0","7","/","0","1">>,
      <<"2","0","2","4","-","7","-","1">>,
      <<"0","1","-","0","7","-","2","0","2","4">>,
      <<>>,
      <<"2","0","2","4","-","0","7","-","0","1"," ">>,
      <<"0","0","0","0","-","0","1","-","0","1">> }

\* the {age} path parameter
AgeQueries ==
    { <<"9"," ","m","o","n","t","h","s">>,
      <<"9">>,
      <<"\r","1","2"," ","M","O","N","T","H","S"," ">>,
      <<"m","o","n","t","h","s">>,
      <<"a","t"," ","b","i","r","t","h"," ","o","r"," ","6"," ","w","e","e","k","s">>,
      <<>>,
      <<" ">>,
      <<"d","u","e">>,
      <<"5"," ","y","e","a","r","s">> }

\* names of disease records
DiseaseNames ==
    { <<"F","l","u">>,
      <<" ","a","X","\r">>,
      <<"f","x">> }

\* the {name} path parameter
NameQueries ==
    { <<>>,
      <<" ">>,
      <<"F","L">>,
      <<"x">>,
      <<"\f","X","">>,
      <<"f","z">>,
      <<"q">>,
      <<"l","x">>,
      <<"a"," ","x">> }

\* common_symptoms lists of disease records
SymptomLists ==
    { <<<<"a">>>>,
      <<<<"A","\n">>, <<"b">>, <<"a">>>>,
      <<<<"b">>, <<>>>> }

\* the symptoms parameter
SymptomQueries ==
    { <<>>,
      <<"a">>,
      <<"a",",","b">>,
      <<"A","\r",","," ","a">>,
      <<"b",",",",">>,
      <<"c">>,
      <<"c",","," ","B">> }

\* diseases.json for the lookup: absent (the fallback []) or up to MaxDiseases
\* records
LookupCatalogs ==
    {[i \in 1..Len(ns) |-> [disease |-> ns[i], common_symptoms |-> <<>>]] :
        ns \in SeqsOf(DiseaseNames, 0, MaxDiseases)}

\* diseases.json for the symptom checker: record i is named D<i>
SymptomCatalogs ==
    {[i \in 1..Len(ls) |-> [disease |-> <<"D", Digits[i + 1]>>, common_symptoms |-> ls[i]]] :
        ls \in SeqsOf(SymptomLists, 0, MaxCatalog)}

Hi == <<"h","i">>

\* the lang parameter of the requests
Langs == {En, Hi}

\* translations.json: absent (the fallback {}), or a file where one key has
\* only the English text, one only the Hindi text, and the others are missing
Translations ==
    { <<>>,
      [unknown_query |-> (En :> "Sorry, I did not understand."),
       disease_info |-> (Hi :> "rog ki jankari"),
       welcome |-> (Hi :> "swagat")] }

\* request paths
Paths ==
    { <<"/">>,
      <<"/","f","a","v","i","c","o","n",".","i","c","o">>,
      <<"/","d","i","s","e","a","s","e","/","F","L">>,
      <<"/","d","i","s","e","a","s","e","/">>,
      <<"/","s","y","m","p","t","o","m","-","c","h","e","c","k">>,
      <<"/","v","a","c","c","i","n","a","t","i","o","n","/","a","l","l">>,
      <<"/","v","a","c","c","i","n","a","t","i","o","n","/","d","u","e">>,
      <<"/","v","a","c","c","i","n","a","t","i","o","n","/","9">>,
      <<"/","v","a","c","c","i","n","a","t","i","o","n","/","d","u","e","/">>,
      <<"/","v","a","c","c","i","n","a","t","i","o","n">>,
      <<"/","c","l","i","n","i","c">>,
      <<"/","d","o","c","s">>,
      <<"/","r","e","d","o","c","/">>,
      <<"/","o","p","e","n","a","p","i",".","j","s","o","n">>,
      <<"/","d","o","c","s","/","o","a","u","t","h","2","-","r","e","d","i","r","e","c","t">>,
      <<"/","s","y","m","p","t","o","m","-","c","h","e","c","k","/","/">>,
      <<"/","v","a","c","c","i","n","a","t","i","o","n","/","a","l","l","\n">>,
      <<"/","d","o","c","s","\n","/">> }

\* scheme and Host header of the requests
Origin == <<"h","t","t","p",":","/","/","t","e","s","t","s","e","r","v","e","r">>

\* the lang parameters of a request: none, or one
RouteLangs == {<<>>, <<Hi>>}

RouteDobs ==
    { <<"2","0","2","4","-","0","1","-","0","1">>,
      <<"2","0","2","4","-","0","7","-","3","1">>,
      <<"x">> }

RouteSymptoms ==
    { <<"a",",","b">> }

\* the catalogs behind the routed requests
RouteCatalogs == {c \in LookupCatalogs : Len(c) <= 1}

RouteSchedules == ShortSchedules

---------------------------------------------------------------------------
(* The operations: each call of a handler is one step.                     *)

DiseaseInfo ==
    /\ call = NoCall
    /\ \E name \in NameQueries, lang \in Langs :
          /\ call' = [handler |-> "get_disease_info", name |-> name, lang |-> lang]
          /\ response' = get_disease_info(name, lang)
          /\ UNCHANGED <<disease_data, vaccination_data, translations, today>>

SymptomCheck ==
    /\ call = NoCall
    /\ \E symptoms \in SymptomQueries, lang \in Langs :
          /\ call' = [handler |-> "symptom_check", symptoms |-> symptoms,
                      lang |-> lang]
          /\ response' = symptom_check(symptoms, lang)
          /\ UNCHANGED <<disease_data, vaccination_data, translations, today>>

AllVaccines ==
    /\ call = NoCall
    /\ \E lang \in Langs :
          /\ call' = [handler |-> "get_all_vaccines", lang |-> lang]
          /\ response' = get_all_vaccines(lang)
          /\ UNCHANGED <<disease_data, vaccination_data, translations, today>>

VaccinesByAge ==
    /\ call = NoCall
    /\ \E age \in AgeQueries, lang \in Langs :
          /\ call' = [handler |-> "get_vaccines_by_age", age |-> age, lang |-> lang]
          /\ response' = get_vaccines_by_age(age, lang)
          /\ UNCHANGED <<disease_data, vaccination_data, translations, today>>

DueVaccines ==
    /\ call = NoCall
    /\ \E dob \in DobStrings, lang \in Langs :
          /\ call' = [handler |-> "get_due_vaccines", dob |-> dob, lang |-> lang]
          /\ response' = get_due_vaccines(dob, lang)
          /\ UNCHANGED <<disease_data, vaccination_data, translations, today>>

\* the response has been sent: the server waits for the next request
Respond ==
    /\ call # NoCall
    /\ call' = NoCall
    /\ response' = None
    /\ UNCHANGED <<disease_data, vaccination_data, translations, today>>

\* GET path?dob=...&symptoms=...[&lang=...]: the first matching route's
\* handler runs; without one the router redirects to the path's other
\* spelling if that has a route, and answers 404 if not
HttpGet ==
    /\ call = NoCall
    /\ \E path \in Paths, dob \in RouteDobs, symptoms \in RouteSymptoms,
          langs \in RouteLangs :
          LET i == Dispatch(path)
              handler == IF i # 0 THEN Routes[i].handler
                         ELSE IF Redirects(path) THEN "redirect"
                         ELSE "not_found"
              lang == IF langs = <<>> THEN En ELSE langs[1]
          IN  /\ call' = [handler |-> handler, path |-> path, dob |-> dob,
                          symptoms |-> symptoms, langs |-> langs]
              /\ response' =
                    CASE handler = "home" -> [message |-> t("welcome", lang)]
                      [] handler = "favicon" -> [status |-> 204]
                      [] handler = "get_disease_info" ->
                            get_disease_info(PathParam(Routes[i].path, path), lang)
                      [] handler = "symptom_check" -> symptom_check(symptoms, lang)
                      [] handler = "get_all_vaccines" -> get_all_vaccines(lang)
                      [] handler = "get_vaccines_by_age" ->
                            get_vaccines_by_age(PathParam(Routes[i].path, path), lang)
                      [] handler = "get_due_vaccines" -> get_due_vaccines(dob, lang)
                      [] handler \in {"openapi", "swagger_ui_html",
                                      "swagger_ui_redirect", "redoc_html"} ->
                            [status |-> 200]
                      [] handler = "redirect" ->
                            [status |-> 307,
                             location |-> quote(Origin \o redirect_path(path)
                                                \o <<"?">>
                                                \o QueryString(dob, symptoms, langs))]
                      [] OTHER -> [status |-> 404]
              /\ UNCHANGED <<disease_data, vaccination_data, translations, today>>

InitDisease ==
    /\ disease_data \in LookupCatalogs
    /\ vaccination_data = <<>>
    /\ translations \in Translations
    /\ today = Today
    /\ call = NoCall
    /\ response = None

NextDisease == DiseaseInfo \/ Respond

SpecDisease == InitDisease /\ [][NextDisease]_vars

InitSymptom ==
    /\ disease_data \in SymptomCatalogs
    /\ vaccination_data = <<>>
    /\ translations \in Translations
    /\ today = Today
    /\ call = NoCall
    /\ response = None

NextSymptom == SymptomCheck \/ Respond

SpecSymptom == InitSymptom /\ [][NextSymptom]_vars

\* the short schedules on either day and with either translations file; the
\* long ones on the first day without translations
InitVacc ==
    /\ disease_data = <<>>
    /\ \/ /\ vaccination_data \in ShortSchedules
          /\ translations \in Translations
          /\ today \in Todays
       \/ /\ vaccination_data \in LongSchedules
          /\ translations = <<>>
          /\ today = Today
    /\ call = NoCall
    /\ response = None

NextVacc == AllVaccines \/ VaccinesByAge \/ DueVaccines \/ Respond

SpecVacc == InitVacc /\ [][NextVacc]_vars

InitRoute ==
    /\ disease_data \in RouteCatalogs
    /\ vaccination_data \in RouteSchedules
    /\ translations \in Translations
    /\ today = Today
    /\ call = NoCall
    /\ response = None

NextRoute == HttpGet \/ Respond

SpecRoute == InitRoute /\ [][NextRoute]_vars

\* all the handlers together, on the catalogs of up to MaxJoint records
Init ==
    \/ InitDisease /\ Len(disease_data) <= MaxJoint
    \/ InitSymptom /\ Len(disease_data) <= MaxJoint
    \/ InitVacc
    \/ InitRoute

Next ==
    \/ DiseaseInfo
    \/ SymptomCheck
    \/ AllVaccines
    \/ VaccinesByAge
    \/ DueVaccines
    \/ HttpGet
    \/ Respond

Spec == Init /\ [][Next]_vars

---------------------------------------------------------------------------
(* The properties.                                                         *)

\* a occurs in b as a contiguous run of characters
IsSubstring(a, b) ==
    \E i \in 1..(Len(b) + 1) : \E j \in (i - 1)..Len(b) : SubSeq(b, i, j) = a

\* the elements of seq at the positions in S, in the order of seq
RECURSIVE PickFrom(_, _, _)
PickFrom(seq, S, i) ==
    IF i > Len(seq) THEN <<>>
    ELSE (IF i \in S THEN <<seq[i]>> ELSE <<>>) \o PickFrom(seq, S, i + 1)

Least(S) == CHOOSE i \in S : \A j \in S : i <= j

\* the recognized labels and their inclusive windows in months
Windows ==
    << [label |-> <<"a","t"," ","b","i","r","t","h">>, lo |-> 0, hi |-> 0],
       [label |-> <<"6"," ","w","e","e","k","s">>, lo |-> 1, hi |-> 2],
       [label |-> <<"1","0"," ","w","e","e","k","s">>, lo |-> 2, hi |-> 3],
       [label |-> <<"1","4"," ","w","e","e","k","s">>, lo |-> 3, hi |-> 4],
       [label |-> <<"9","-","1","2"," ","m","o","n","t","h","s">>, lo |-> 9, hi |-> 12],
       [label |-> <<"1","6","-","2","4"," ","m","o","n","t","h","s">>, lo |-> 16, hi |-> 24],
       [label |-> <<"5","-","6"," ","y","e","a","r","s">>, lo |-> 60, hi |-> 72],
       [label |-> <<"1","0"," ","y","e","a","r","s">>, lo |-> 120, hi |-> 132] >>

\* the entry's label is a recognized one and the age lies in its window
InWindow(label, months) ==
    \E k \in 1..Len(Windows) :
        /\ lower(label) = Windows[k].label
        /\ Windows[k].lo <= months /\ months <= Windows[k].hi

DueAnswered ==
    call.handler = "get_due_vaccines" /\ "due_vaccines" \in DOMAIN response

\* C1: get_due_vaccines places an entry in due_vaccines if and only if its
\* label is one of the eight recognized labels and age_months lies in that
\* label's window; an entry with any other label is never placed there.
C1_DueIffRecognizedWindow ==
    DueAnswered =>
        \A i \in 1..Len(all_entries) :
            (\E j \in 1..Len(response.due_vaccines) :
                 response.due_vaccines[j] = all_entries[i])
            <=> InWindow(all_entries[i].age, response.age_months)

\* the integer before the first "-" of the label with the word "months"
\* stripped, when that text is a number
LowerBound(label) ==
    LET l == lower(label)
        cut == FirstIndex(l, "-")
        before == IF cut = 0 THEN l ELSE SubSeq(l, 1, cut - 1)
        text == strip(remove(before, Months))
    IN  IF text # <<>> /\ \A i \in 1..Len(text) : IsDigit(text[i])
        THEN [ok |-> TRUE, val |-> DigitsValue(text)]
        ELSE [ok |-> FALSE, val |-> 0]

Qualifies(entry, months) ==
    /\ IsSubstring(Months, lower(entry.age))
    /\ ~InWindow(entry.age, months)
    /\ LowerBound(entry.age).ok
    /\ LowerBound(entry.age).val > months

\* C2: upcoming_vaccine is the first entry in catalog order (NIS_vaccines,
\* then optional_private_vaccines) whose label contains "months", is not due
\* and has a parsable lower bound greater than age_months; an entry whose
\* bound does not parse is skipped; with no such entry it is None.
C2_UpcomingIsFirstQualifying ==
    DueAnswered =>
        LET Q == {i \in 1..Len(all_entries) :
                     Qualifies(all_entries[i], response.age_months)}
        IN  IF Q = {} THEN response.upcoming_vaccine = None
            ELSE response.upcoming_vaccine = all_entries[Least(Q)]

\* C2 witness: the upcoming entry stands behind an entry whose bound does
\* not parse and before another entry that qualifies too.
C2_Witness ==
    /\ DueAnswered
    /\ \E i, j, k \in 1..Len(all_entries) :
          /\ i < j /\ j < k
          /\ IsSubstring(Months, lower(all_entries[i].age))
          /\ ~LowerBound(all_entries[i].age).ok
          /\ response.upcoming_vaccine = all_entries[j]
          /\ Qualifies(all_entries[k], response.age_months)
          /\ LowerBound(all_entries[k].age).val < LowerBound(all_entries[j].age).val

\* the date is later than today, by year, month and day
LaterThanToday(d) ==
    \/ d.year > today.year
    \/ d.year = today.year /\ d.month > today.month
    \/ d.year = today.year /\ d.month = today.month /\ d.day > today.day

InvalidDate ==
    /\ "error" \in DOMAIN response
    /\ DOMAIN response \cap {"age_months", "due_vaccines", "upcoming_vaccine"} = {}

\* C3: get_due_vaccines fails with an invalid-date error, returning no
\* age_months, due_vaccines or upcoming_vaccine, whenever the dob does not
\* parse or is later than today; for an accepted dob age_months is
\* floor(days / 30) and never negative.
C3_BadOrFutureDobRejected ==
    (call.handler = "get_due_vaccines" /\ DOMAIN vaccination_data # {}) =>
        LET d == strptime(call.dob)
        IN  IF ~d.ok \/ LaterThanToday(d) THEN InvalidDate
            ELSE /\ "age_months" \in DOMAIN response
                 /\ response.age_months * 30 <= toordinal(today) - toordinal(d)
                 /\ toordinal(today) - toordinal(d) < (response.age_months + 1) * 30
                 /\ response.age_months >= 0

SymptomAnswered ==
    call.handler = "symptom_check" /\ "possible_diseases" \in DOMAIN response

\* the diseases symptom_check returned, none when it returned the sentinel
Returned ==
    IF "list" \in DOMAIN response.possible_diseases
    THEN response.possible_diseases.list ELSE <<>>

\* position in the catalog of the record a returned disease was built from
CatalogIndex(name) == CHOOSE i \in 1..Len(disease_data) : disease_data[i].disease = name

\* the distinct trimmed, lower-cased symptoms of a list
SymptomSet(list) == {strip(lower(list[i])) : i \in 1..Len(list)}

\* size of the intersection of the query's and the record's symptom sets
Overlap(record) ==
    Cardinality(SymptomSet(split(call.symptoms, ",")) \cap SymptomSet(record.common_symptoms))

Candidates == {i \in 1..Len(disease_data) : Overlap(disease_data[i]) > 0}

\* C4: the list symptom_check returns is sorted non-increasing by
\* match_score, and returned diseases of equal score stand in the order of
\* their records in the catalog, also after the cut to the result cap.
C4_SortedStable ==
    SymptomAnswered =>
        \A i, j \in 1..Len(Returned) :
            i < j =>
                /\ Returned[i].match_score >= Returned[j].match_score
                /\ Returned[i].match_score = Returned[j].match_score
                      => CatalogIndex(Returned[i].disease) < CatalogIndex(Returned[j].disease)

\* C4 witness: a result cut to the cap, with a tie, and with a disease ranked ahead of
\* one that precedes it in the catalog.
C4_Witness ==
    /\ SymptomAnswered
    /\ Cardinality(Candidates) > ResultCap
    /\ Len(Returned) = ResultCap
    /\ \E i, j \in 1..Len(Returned) :
          i < j /\ Returned[i].match_score = Returned[j].match_score
    /\ \E i, j \in 1..Len(Returned) :
          /\ i < j
          /\ Returned[i].match_score > Returned[j].match_score
          /\ CatalogIndex(Returned[i].disease) > CatalogIndex(Returned[j].disease)

\* C5: each returned disease's match_score is the number of distinct
\* trimmed, lower-cased user symptoms in the disease's trimmed, lower-cased
\* symptom list; the candidates are the diseases of positive score and the
\* result holds the min(5, number of candidates) highest scoring of them.
C5_ScoreAndCap ==
    SymptomAnswered =>
        LET back == {CatalogIndex(Returned[k].disease) : k \in 1..Len(Returned)}
        IN  /\ Len(Returned) = (IF Cardinality(Candidates) < 5
                               THEN Cardinality(Candidates) ELSE 5)
            /\ Cardinality(back) = Len(Returned)
            /\ back \subseteq Candidates
            /\ \A k \in 1..Len(Returned) :
                  Returned[k].match_score
                      = Overlap(disease_data[CatalogIndex(Returned[k].disease)])
            /\ \A i \in Candidates \ back : \A k \in back :
                  Overlap(disease_data[i]) <= Overlap(disease_data[k])

\* C5 witness: a query that repeats a symptom, more candidates than the cap,
\* and a candidate of lower score left out.
C5_Witness ==
    /\ SymptomAnswered
    /\ Cardinality(SymptomSet(split(call.symptoms, ","))) < Len(split(call.symptoms, ","))
    /\ Cardinality(Candidates) > ResultCap
    /\ Len(Returned) = ResultCap
    /\ \E i \in Candidates :
          /\ \A k \in 1..Len(Returned) : CatalogIndex(Returned[k].disease) # i
          /\ Overlap(disease_data[i]) < Returned[1].match_score

\* C9: symptom_check with an empty symptoms string against a non-empty
\* catalog returns no disease, and the outcome is not an error.
C9_EmptyQueryNoMatch ==
    (call.handler = "symptom_check" /\ call.symptoms = <<>> /\ disease_data # <<>>) =>
        /\ "error" \notin DOMAIN response
        /\ "possible_diseases" \in DOMAIN response
        /\ Returned = <<>>

AgeAnswered ==
    call.handler = "get_vaccines_by_age" /\ DOMAIN vaccination_data # {}

\* the entries get_vaccines_by_age returned, none with its error
Vaccines == IF "vaccines" \in DOMAIN response THEN response.vaccines ELSE <<>>

\* the entries whose lower-cased label contains the trimmed, lower-cased
\* query or is contained in it
LabelMatches ==
    LET q == strip(lower(call.age))
    IN  {i \in 1..Len(all_entries) :
            \/ IsSubstring(q, lower(all_entries[i].age))
            \/ IsSubstring(lower(all_entries[i].age), q)}

NineMonths == <<"9"," ","m","o","n","t","h","s">>

NineToTwelve == <<"9","-","1","2"," ","m","o","n","t","h","s">>

\* C6 as stated: get_vaccines_by_age returns exactly the entries whose label
\* contains the query or is contained in it, and the query "9 months"
\* returns an entry labeled "9-12 months".
C6_NineMonthsFindsNineToTwelve ==
    AgeAnswered =>
        /\ Vaccines = PickFrom(all_entries, LabelMatches, 1)
        /\ call.age = NineMonths =>
              \A i \in 1..Len(all_entries) :
                  all_entries[i].age = NineToTwelve =>
                      \E k \in 1..Len(Vaccines) : Vaccines[k] = all_entries[i]

\* C6 amended: get_vaccines_by_age returns exactly the entries whose label
\* contains the query or is contained in it, in catalog order; the query
\* "9 months" does not return an entry labeled "9-12 months", neither text
\* containing the other.
C6_ExactlyContainment ==
    AgeAnswered =>
        /\ Vaccines = PickFrom(all_entries, LabelMatches, 1)
        /\ call.age = NineMonths =>
              \A k \in 1..Len(Vaccines) : Vaccines[k].age # NineToTwelve

\* C6 witness: the query "9 months" against a schedule with a "9-12 months"
\* entry finds no vaccine.
C6_Witness ==
    /\ AgeAnswered
    /\ call.age = NineMonths
    /\ \E i \in 1..Len(all_entries) : all_entries[i].age = NineToTwelve
    /\ "error" \in DOMAIN response

LookupAnswered ==
    call.handler = "get_disease_info" /\ disease_data # <<>>

\* C7: against a non-empty catalog, get_disease_info with a query that is
\* empty, or empty once trimmed, fails with an error instead of returning
\* records, and never indexes the first character of an empty query.
C7_EmptyQueryRejected ==
    (LookupAnswered /\ strip(call.name) = <<>>) =>
        /\ "error" \in DOMAIN response
        /\ "results" \notin DOMAIN response
        /\ "exception" \notin DOMAIN response

\* the records whose name contains q, letter case ignored
NameHits(q) ==
    {i \in 1..Len(disease_data) : IsSubstring(q, lower(disease_data[i].disease))}

\* C8: for a non-empty query (the handler's query: the name parameter
\* trimmed and lower-cased), get_disease_info returns in catalog order
\* exactly the records whose name contains it, letter case ignored; with no
\* such record it returns a no-data error and did_you_mean, the first at most
\* 5 names, in catalog order, of the records whose name contains the query's
\* first character, each the name of a catalog record.
C8_MatchesOrSuggestions ==
    LET query == strip(lower(call.name))
    IN  (LookupAnswered /\ query # <<>>) =>
            IF NameHits(query) # {}
            THEN /\ "results" \in DOMAIN response
                 /\ response.results = PickFrom(disease_data, NameHits(query), 1)
            ELSE LET names == PickFrom([i \in 1..Len(disease_data) |-> disease_data[i].disease],
                                       NameHits(<<query[1]>>), 1)
                 IN  /\ DOMAIN response = {"error", "did_you_mean"}
                     /\ response.did_you_mean
                            = SubSeq(names, 1, IF Len(names) < 5 THEN Len(names) ELSE 5)
                     /\ \A k \in 1..Len(response.did_you_mean) :
                            \E i \in 1..Len(disease_data) :
                                disease_data[i].disease = response.did_you_mean[k]

\* C8 witness: a query matching no name whose first character occurs in more
\* than five names, answered with five suggestions; the names matched differ
\* from the query in letter case.
C8_Witness ==
    /\ LookupAnswered
    /\ "did_you_mean" \in DOMAIN response
    /\ Len(response.did_you_mean) = SuggestionCap
    /\ Cardinality(NameHits(<<strip(lower(call.name))[1]>>)) > SuggestionCap
    /\ \E k \in 1..SuggestionCap :
          ~IsSubstring(<<strip(lower(call.name))[1]>>, response.did_you_mean[k])

DuePath == <<"/","v","a","c","c","i","n","a","t","i","o","n","/","d","u","e">>

\* C10: with first-match dispatch in registration order, a request for
\* /vaccination/due with a dob parameter is handled by get_due_vaccines and
\* never by get_vaccines_by_age with age = "due".
C10_DuePathReachesDueHandler ==
    ("path" \in DOMAIN call /\ call.path = DuePath) =>
        /\ call.handler = "get_due_vaccines"
        /\ call.handler # "get_vaccines_by_age"

====
